---- MODULE Spec2Model ----
(***************************************************************************)
(* Model of the rTMS-NeuroMarkers helper functions                         *)
(*   src/src/preprocessing.py   create_epochs, notch_filter,               *)
(*                              bandpass_filter, re_reference,             *)
(*                              realign_final_session, interpolate_nans,   *)
(*                              signal_detrend                             *)
(*   src/src/utils.py           load_mne_data                              *)
(*                                                                         *)
(* The program is single threaded; every function is one atomic step.      *)
(* Python objects live in heaps (sequences indexed by object id), so that  *)
(* "the same object" and "an equal copy" are different things:             *)
(*   raws    the mne.io.Raw objects                                        *)
(*   lists   the Python lists of Raw objects (session lists)               *)
(*   arrays  the numpy matrices (channels x samples)                       *)
(*   last    the last call: its name, arguments, heaps before it, outcome  *)
(* The calls into mne / numpy are modelled by what the called routine does *)
(* with the arguments and defaults the source passes.                      *)
(***************************************************************************)
EXTENDS Integers, Sequences, FiniteSets, TLC

VARIABLES raws, lists, arrays, last

vars == <<raws, lists, arrays, last>>

(***************************************************************************)
(* Bounds of the model.                                                    *)
(***************************************************************************)
MaxSessions == 2      \* sessions in the initial session list
MaxSamples == 4       \* samples of one initial session
MaxListLen == 3       \* realign_final_session is called while the list is shorter
MaxLen == 6           \* samples per channel of a matrix

(***************************************************************************)
(* Exact rational numbers [n, d] stand for Python floats; d = 0 is NaN.    *)
(***************************************************************************)
RECURSIVE GCD(_, _)
GCD(a, b) == IF b = 0 THEN a ELSE GCD(b, a % b)

Abs(x) == IF x < 0 THEN -x ELSE x

Rat(n, d) ==
    LET s == IF d < 0 THEN -1 ELSE 1
        g == GCD(Abs(n), Abs(d))
    IN  [n |-> (s * n) \div g, d |-> (s * d) \div g]

NaN == [n |-> 0, d |-> 0]
IsNaN(x) == x.d = 0
Num(k) == [n |-> k, d |-> 1]

RatAdd(x, y) == Rat(x.n * y.d + y.n * x.d, x.d * y.d)
RatSub(x, y) == Rat(x.n * y.d - y.n * x.d, x.d * y.d)
RatMul(x, y) == Rat(x.n * y.n, x.d * y.d)
RatDiv(x, y) == Rat(x.n * y.d, x.d * y.n)
RatLt(x, y) == x.n * y.d < y.n * x.d
RatLe(x, y) == x.n * y.d <= y.n * x.d

\* Python int(x): truncation toward zero.
PyInt(x) == IF x.n >= 0 THEN x.n \div x.d ELSE -((-x.n) \div x.d)

\* Python round(x) on a float: round half to even.
PyRound(x) ==
    LET q == x.n \div x.d
        r == x.n - q * x.d
    IN  IF 2 * r < x.d THEN q
        ELSE IF 2 * r > x.d THEN q + 1
        ELSE IF q % 2 = 0 THEN q ELSE q + 1

Min(a, b) == IF a <= b THEN a ELSE b
Max(a, b) == IF a >= b THEN a ELSE b

(***************************************************************************)
(* mne.io.Raw: one representative channel of labelled samples, the number  *)
(* of the first sample, the sampling rate, and the processing applied.     *)
(***************************************************************************)
MkRaw(data, first, sfreq) ==
    [data |-> data, first_samp |-> first, sfreq |-> sfreq, proc |-> <<>>]

NTimes(raw) == Len(raw.data)

\* A mutant of Copy: no copy is made, the caller's object itself is used.
CopyAlias(heap, id) == [heap |-> heap, id |-> id]

\* obj.copy(): a new object with equal contents.
Copy(heap, id) == [heap |-> Append(heap, heap[id]), id |-> Len(heap) + 1]

\* Raw.crop(tmin, tmax, include_tmax=True), in place on one Raw: the samples
\* whose time lies in [tmin, tmax], BOTH ends included (include_tmax is left
\* at its default by the source), are kept.
Crop(raw, tmin, tmax) ==
    LET sf == Num(raw.sfreq)
        max_time == Rat(NTimes(raw) - 1, raw.sfreq)
    IN  IF RatLt(tmax, tmin) \/ RatLt(tmin, Num(0)) \/ RatLt(max_time, tmax)
        THEN [status |-> "ValueError", raw |-> raw]
        ELSE LET smin == PyRound(RatMul(tmin, sf))
                 smax == PyRound(RatMul(tmax, sf))
             IN  [status |-> "ok",
                  raw |-> [raw EXCEPT !.data = SubSeq(raw.data, smin + 1, smax + 1),
                                      !.first_samp = raw.first_samp + smin]]

\* crop(tmax=t): tmin keeps its default 0.0.
CropTmax(raw, t) == Crop(raw, Num(0), t)

\* crop(tmin=t): tmax defaults to None, the time of the last sample.
CropTmin(raw, t) == Crop(raw, t, Rat(NTimes(raw) - 1, raw.sfreq))

(***************************************************************************)
(* realign_final_session(mne_raw_sessions)                                 *)
(***************************************************************************)
RealignResult(heap, lst) ==
    IF Len(lst) = 0
    THEN [status |-> "IndexError", heap |-> heap, lst |-> lst]
    ELSE
    LET final == lst[Len(lst)]
        midpoint_samples == NTimes(heap[final]) \div 2
        t == Rat(midpoint_samples, heap[final].sfreq)
        c1 == Copy(heap, final)
        r1 == CropTmax(c1.heap[c1.id], t)
        h1 == [c1.heap EXCEPT ![c1.id] = r1.raw]
        c2 == Copy(h1, final)
        r2 == CropTmin(c2.heap[c2.id], t)
        h2 == [c2.heap EXCEPT ![c2.id] = r2.raw]
    IN  IF r1.status # "ok"
        THEN [status |-> r1.status, heap |-> c1.heap, lst |-> lst]
        ELSE IF r2.status # "ok"
        THEN [status |-> r2.status, heap |-> c2.heap, lst |-> lst]
        ELSE [status |-> "ok", heap |-> h2,
              lst |-> Append([lst EXCEPT ![Len(lst)] = c1.id], c2.id)]

\* The caller's list object is lists[1]; the function assigns into it and
\* appends to it, and returns that same list object.
RealignFinalSession ==
    /\ Len(lists) >= 1
    /\ Len(lists[1]) < MaxListLen
    /\ LET res == RealignResult(raws, lists[1])
       IN  /\ raws' = res.heap
           /\ lists' = [lists EXCEPT ![1] = res.lst]
           /\ last' = [op |-> "realign_final_session", status |-> res.status,
                       arg |-> 1, ret |-> 1,
                       rawsBefore |-> raws, listBefore |-> lists[1]]
    /\ UNCHANGED arrays

(***************************************************************************)
(* The filters: each is data.copy().<method>(...). The method works in     *)
(* place on the copy and returns it; when the method raises, nothing is    *)
(* returned. The object returned is held in last.out, the heap keeps the   *)
(* caller's objects only. The caller passes one of the recordings of its   *)
(* session list.                                                           *)
(***************************************************************************)
Held == IF lists = <<>> THEN {} ELSE {lists[1][i] : i \in 1..Len(lists[1])}

\* One in-place method of Raw applied to object id of heap: the object now
\* holds the processed signal (the tag records which; the sample values of a
\* filtered signal are not modelled).
ApplyInPlace(heap, id, tag) ==
    [heap EXCEPT ![id].proc = Append(@, tag)]

\* data.copy().<method>(...) with the method's outcome status.
OnCopy(heap, id, tag, status) ==
    LET c == Copy(heap, id)
        h == IF status = "ok" THEN ApplyInPlace(c.heap, c.id, tag) ELSE c.heap
    IN  [status |-> status, heap |-> h, id |-> c.id]

\* What a call leaves behind: the caller's objects (the first Len(raws) of
\* the heap) and the record of the call.
Returned(op, id, args, res) ==
    /\ raws' = SubSeq(res.heap, 1, Len(raws))
    /\ last' = [op |-> op, status |-> res.status, arg |-> id, args |-> args,
                ret |-> IF res.status = "ok" THEN res.id ELSE 0,
                out |-> IF res.status = "ok" THEN res.heap[res.id] ELSE <<>>,
                rawsBefore |-> raws]
    /\ UNCHANGED <<lists, arrays>>

\* The frequencies are integers in Hz.
NotchFreqs == {<<50>>, <<50, 60>>}
LowFreqs == {0, 10, 40}
HighFreqs == {10, 40, 50, 60}
RefChannels == {"average", "Cz"}

\* Raw.notch_filter validates the frequencies inside the library; whether it
\* accepts them is left open here (both outcomes).
NotchFilter ==
    \E id \in Held, freqs \in NotchFreqs, st \in {"ok", "ValueError"} :
        Returned("notch_filter", id, freqs,
                 OnCopy(raws, id, <<"notch_filter", freqs>>, st))

\* Raw.filter(l_freq, h_freq) with the library's defaults (FIR design,
\* transition bandwidths 'auto'), in quarters of a Hz:
\*   h_freq above the Nyquist frequency is refused;
\*   l_freq = 0 means no lower edge (a low-pass);
\*   l_freq < h_freq designs a band-pass, otherwise a BAND-STOP is designed
\*   (the band between h_freq and l_freq is removed);
\*   the automatic transition bandwidths min(max(l/4, 2), l) and
\*   min(max(h/4, 2), nyquist - h) must be positive, and the edges of a
\*   band-stop must leave room for both transitions.
FilterOutcome(l_freq, h_freq, sfreq) ==
    LET nyq == 2 * sfreq
        l == 4 * l_freq
        h == 4 * h_freq
        l_trans == Min(Max(l_freq, 8), l)
        h_trans == Min(Max(h_freq, 8), nyq - h)
    IN  IF h > nyq THEN [status |-> "ValueError", kind |-> "none"]
        ELSE IF l = 0
        THEN IF h_trans <= 0 THEN [status |-> "ValueError", kind |-> "none"]
             ELSE [status |-> "ok", kind |-> "low-pass"]
        ELSE IF l < h
        THEN IF h_trans <= 0 \/ l_trans <= 0
             THEN [status |-> "ValueError", kind |-> "none"]
             ELSE [status |-> "ok", kind |-> "band-pass"]
        ELSE IF h_trans <= 0 \/ l_trans <= 0 \/ h + h_trans > l - l_trans
             THEN [status |-> "ValueError", kind |-> "none"]
             ELSE [status |-> "ok", kind |-> "band-stop"]

BandpassFilter ==
    \E id \in Held, l_freq \in LowFreqs, h_freq \in HighFreqs :
        LET o == FilterOutcome(l_freq, h_freq, raws[id].sfreq)
        IN  Returned("bandpass_filter", id, <<l_freq, h_freq>>,
                     OnCopy(raws, id, <<o.kind, l_freq, h_freq>>, o.status))

\* Raw.set_eeg_reference: "average" always applies; a named channel must be
\* one of the recording's channels, which is left open here.
ReReference ==
    \E id \in Held, ref \in RefChannels,
       st \in {"ok", "ValueError"} :
        /\ ref = "average" => st = "ok"
        /\ Returned("re_reference", id, ref,
                    OnCopy(raws, id, <<"set_eeg_reference", ref>>, st))

SignalDetrend ==
    \E id \in Held :
        Returned("signal_detrend", id, <<>>,
                 OnCopy(raws, id, <<"detrend">>, "ok"))

(***************************************************************************)
(* create_epochs(data, start_times, duration)                              *)
(***************************************************************************)
StartTimes == {Num(0), Rat(3, 4), Num(1), Num(2)}
Durations == {Rat(1, 2), Rat(3, 4), Num(1)}

RECURSIVE SelectGood(_, _, _, _)
\* The epochs mne keeps, in event order: an epoch whose first sample lies
\* before the data ('NO_DATA') or that reaches past its last sample
\* ('TOO_SHORT') is dropped from the result, without an error.
SelectGood(raw, events, start_idx, n) ==
    IF events = <<>> THEN <<>>
    ELSE LET start == Head(events) + start_idx - raw.first_samp
             stop == start + n
             rest == SelectGood(raw, Tail(events), start_idx, n)
         IN  IF start < 0 \/ stop > NTimes(raw)
             THEN rest
             ELSE <<[event |-> Head(events), start |-> start,
                     data |-> SubSeq(raw.data, start + 1, stop)]>> \o rest

\* mne.Epochs(raw, events, tmin, tmax, baseline=None, preload=True) with the
\* library's defaults (event_repeated='error'): repeated event samples are
\* refused, tmin > tmax is refused, every epoch holds the samples
\* round(tmin*sfreq) .. round(tmax*sfreq) counted from its event, and event
\* samples are absolute sample numbers (first_samp is subtracted).
MneEpochs(raw, events, tmin, tmax) ==
    LET sf == Num(raw.sfreq)
        start_idx == PyRound(RatMul(tmin, sf))
        n == PyRound(RatMul(tmax, sf)) - start_idx + 1
    IN  IF \E i, j \in 1..Len(events) : i # j /\ events[i] = events[j]
        THEN [status |-> "RuntimeError", epochs |-> <<>>]
        ELSE IF RatLt(tmax, tmin)
        THEN [status |-> "ValueError", epochs |-> <<>>]
        ELSE [status |-> "ok", epochs |-> SelectGood(raw, events, start_idx, n)]

\* A mutant of EpochTmax: the last sample of the window is not excluded.
EpochTmaxInclusive(duration, sfreq) == duration

\* tmax = duration - (1 / sfreq)
EpochTmax(duration, sfreq) == RatSub(duration, Rat(1, sfreq))

CreateEpochsResult(raw, start_times, duration) ==
    LET sfreq == raw.sfreq
        events == [i \in 1..Len(start_times) |->
                      PyInt(RatMul(start_times[i], Num(sfreq)))]
    IN  MneEpochs(raw, events, Num(0), EpochTmax(duration, sfreq))

StartLists ==
    {<<t>> : t \in StartTimes}
        \cup {<<t, u>> : t \in StartTimes, u \in {Num(0), Num(1)}}

CreateEpochs ==
    \E id \in Held, start_times \in StartLists, duration \in Durations :
        LET res == CreateEpochsResult(raws[id], start_times, duration)
        IN  /\ last' = [op |-> "create_epochs", status |-> res.status, arg |-> id,
                        start_times |-> start_times, duration |-> duration,
                        ret |-> 0, epochs |-> res.epochs, rawsBefore |-> raws]
            /\ UNCHANGED <<raws, lists, arrays>>

(***************************************************************************)
(* interpolate_nans(data): data is a matrix, one row per channel.          *)
(***************************************************************************)
RECURSIVE Bracket(_, _, _)
\* The largest j >= k with xp[j] <= x (xp ascending, xp[k] <= x).
Bracket(x, xp, k) ==
    IF k < Len(xp) /\ xp[k + 1] <= x THEN Bracket(x, xp, k + 1) ELSE k

\* A mutant of Interp: outside the sample points the end segments are
\* extrapolated (needs two sample points) instead of held.
InterpExtrapolate(x, xp, fp) ==
    LET m == Len(xp)
        j == IF m = 1 \/ x < xp[1] THEN 1
             ELSE Min(Bracket(x, xp, 1), m - 1)
    IN  IF m = 1 THEN fp[1]
        ELSE RatAdd(RatMul(RatDiv(RatSub(fp[j + 1], fp[j]),
                                  Num(xp[j + 1] - xp[j])),
                           Num(x - xp[j])),
                    fp[j])

\* numpy.interp(x, xp, fp) at one point x, with left and right at their
\* defaults (fp[0] and fp[-1]); xp is not empty here.
Interp(x, xp, fp) ==
    IF x < xp[1] THEN fp[1]
    ELSE IF x >= xp[Len(xp)] THEN fp[Len(xp)]
    ELSE LET j == Bracket(x, xp, 1)
             slope == RatDiv(RatSub(fp[j + 1], fp[j]), Num(xp[j + 1] - xp[j]))
         IN  RatAdd(RatMul(slope, Num(x - xp[j])), fp[j])

RECURSIVE Where(_, _, _)
\* The positions i >= k of row (counted from 0, as numpy does) whose value
\* is NaN (want = TRUE) or is not (want = FALSE), ascending.
Where(row, want, k) ==
    IF k > Len(row) THEN <<>>
    ELSE (IF IsNaN(row[k]) = want THEN <<k - 1>> ELSE <<>>)
         \o Where(row, want, k + 1)

\* A mutant of InterpolateChannel: a channel without a sample point is
\* skipped instead of raising.
InterpolateChannelSkipEmpty(channel_data) ==
    LET xp == Where(channel_data, FALSE, 1)
        fp == [k \in 1..Len(xp) |-> channel_data[xp[k] + 1]]
    IN  [status |-> "ok",
         row |-> [i \in 1..Len(channel_data) |->
                     IF IsNaN(channel_data[i]) /\ xp # <<>>
                     THEN Interp(i - 1, xp, fp)
                     ELSE channel_data[i]]]

\* One pass of the loop body on one channel: numpy.interp raises ValueError
\* when the array of sample points is empty.
InterpolateChannel(channel_data) ==
    LET xp == Where(channel_data, FALSE, 1)
        fp == [k \in 1..Len(xp) |-> channel_data[xp[k] + 1]]
    IN  IF xp = <<>>
        THEN [status |-> "ValueError", row |-> channel_data]
        ELSE [status |-> "ok",
              row |-> [i \in 1..Len(channel_data) |->
                          IF IsNaN(channel_data[i])
                          THEN Interp(i - 1, xp, fp)
                          ELSE channel_data[i]]]

RECURSIVE InterpolateFrom(_, _)
\* The loop over the channels from channel on; channel_data is a view, so
\* each assignment writes into data itself, and an exception leaves the
\* earlier channels written.
InterpolateFrom(data, channel) ==
    IF channel > Len(data) THEN [status |-> "ok", data |-> data]
    ELSE LET r == InterpolateChannel(data[channel])
         IN  IF r.status # "ok" THEN [status |-> r.status, data |-> data]
             ELSE InterpolateFrom([data EXCEPT ![channel] = r.row], channel + 1)

\* The caller's matrix is arrays[1]; the function returns that same object.
InterpolateNans ==
    /\ Len(arrays) >= 1
    /\ LET res == InterpolateFrom(arrays[1], 1)
       IN
        /\ arrays' = [arrays EXCEPT ![1] = res.data]
        /\ last' = [op |-> "interpolate_nans", status |-> res.status, arg |-> 1,
                    ret |-> IF res.status = "ok" THEN 1 ELSE 0,
                    arrayBefore |-> arrays[1]]
        /\ UNCHANGED <<raws, lists>>

(***************************************************************************)
(* load_mne_data(directory, filename): names are sequences of characters.  *)
(***************************************************************************)
RawSuffix == <<"_", "r", "a", "w", ".", "f", "i", "f">>
EpoSuffix == <<"_", "e", "p", "o", ".", "f", "i", "f">>

\* A mutant of EndsWith: the suffix may occur anywhere in the name.
Contains(s, suffix) ==
    \E k \in 1..(Len(s) - Len(suffix) + 1) :
        SubSeq(s, k, k + Len(suffix) - 1) = suffix

\* str.endswith(suffix)
EndsWith(s, suffix) ==
    /\ Len(s) >= Len(suffix)
    /\ SubSeq(s, Len(s) - Len(suffix) + 1, Len(s)) = suffix

\* os.path.join(directory, filename) for a relative filename
PathJoin(directory, filename) ==
    IF directory = <<>> \/ directory[Len(directory)] = "/"
    THEN directory \o filename
    ELSE directory \o <<"/">> \o filename

\* The loader the function picks, "none" when it raises before picking one.
LoaderFor(filename) ==
    IF EndsWith(filename, RawSuffix) \/ EndsWith(filename, EpoSuffix)
    THEN IF EndsWith(filename, RawSuffix) THEN "read_raw_fif" ELSE "read_epochs"
    ELSE "none"

Stems == {<<>>, <<"s", "1">>, <<"s", "1">> \o RawSuffix, <<"a">> \o EpoSuffix}
Endings ==
    {RawSuffix, EpoSuffix, RawSuffix \o <<".", "g", "z">>,
     <<"_", "R", "A", "W", ".", "F", "I", "F">>,
     <<"r", "a", "w", ".", "f", "i", "f">>, <<"_", "e", "p", "o", ".", "f", "i">>,
     <<".", "f", "i", "f">>, <<"e", "p", "o", ".", "f", "i", "f">>, <<>>}
Filenames == {s \o e : s \in Stems, e \in Endings}
Directories == {<<>>, <<"d">>, <<"d", "/">>}

\* Whether the loader finds and reads the file is the file system's answer:
\* both outcomes are possible for every path. Loading is the first step of
\* a caller: it is called while the caller holds no data yet.
LoadMneData ==
    /\ raws = <<>> /\ arrays = <<>>
    /\ \E directory \in Directories, filename \in Filenames,
          st \in {"ok", "OSError"} :
        LET filepath == PathJoin(directory, filename)
            loader_func == LoaderFor(filename)
        IN  /\ last' = IF loader_func = "none"
                       THEN [op |-> "load_mne_data", status |-> "ValueError",
                             filename |-> filename, loader |-> "none",
                             reads |-> <<>>, ret |-> 0]
                       ELSE [op |-> "load_mne_data", status |-> st,
                             filename |-> filename, loader |-> loader_func,
                             reads |-> <<filepath>>, ret |-> 0]
            /\ UNCHANGED <<raws, lists, arrays>>

(***************************************************************************)
(* The initial states: a caller holding a session list of recordings built *)
(* by create_mne_raw (first sample 0), or a caller holding a matrix.       *)
(***************************************************************************)
Vals == {NaN, Num(1), Num(3), Num(6)}

NoCall == [op |-> "none", status |-> "ok", arg |-> 0, ret |-> 0]

\* k sessions at 2 Hz, the first k-1 of L samples and the last of N samples;
\* or one recording at 100 Hz.
InitSessions ==
    \E k \in 1..MaxSessions, L \in 1..MaxSamples, N \in 1..MaxSamples,
       sf \in {2, 100} :
        /\ k = 1 => L = N
        /\ sf = 100 => k = 1
        /\ raws = [i \in 1..k |->
                      MkRaw([j \in 1..(IF i = k THEN N ELSE L) |-> 10 * i + j],
                            0, sf)]
        /\ lists = <<[i \in 1..k |-> i]>>
        /\ arrays = <<>>
        /\ last = NoCall

SecondRows(L) ==
    {[i \in 1..L |-> NaN], [i \in 1..L |-> IF i = L THEN Num(2) ELSE NaN]}

InitMatrix ==
    \E L \in 1..MaxLen :
        \E r \in [1..L -> Vals], s \in SecondRows(L) :
            /\ raws = <<>>
            /\ lists = <<>>
            /\ arrays = << <<r, s>> >>
            /\ last = NoCall

\* A caller that holds no data yet (and an empty session list).
InitEmpty ==
    /\ raws = <<>>
    /\ lists = << <<>> >>
    /\ arrays = <<>>
    /\ last = NoCall

Init == InitSessions \/ InitMatrix \/ InitEmpty

Next ==
    \/ RealignFinalSession
    \/ NotchFilter
    \/ BandpassFilter
    \/ ReReference
    \/ SignalDetrend
    \/ CreateEpochs
    \/ InterpolateNans
    \/ LoadMneData

Spec == Init /\ [][Next]_vars

(***************************************************************************)
(* Helpers of the properties.                                              *)
(***************************************************************************)
RealignDone == last.op = "realign_final_session" /\ last.status = "ok"

\* The samples of the last session before the call, and the sessions after.
FinalBefore == last.rawsBefore[last.listBefore[Len(last.listBefore)]].data
SessionAfter(i) == raws[lists[last.ret][i]].data

RawOps == {"notch_filter", "bandpass_filter", "re_reference", "signal_detrend",
           "create_epochs"}

\* Every Raw object that existed before the call is what it was.
RawsAsBefore ==
    \A id \in 1..Len(last.rawsBefore) : raws[id] = last.rawsBefore[id]

HasValid(row) == \E i \in 1..Len(row) : ~IsNaN(row[i])
HasNaN(m) == \E c \in 1..Len(m) : \E i \in 1..Len(m[c]) : IsNaN(m[c][i])

(***************************************************************************)
(* C1: realign_final_session on a list of one session of N >= 2 samples    *)
(* returns two sessions, samples [0, mid) and [mid, N) with mid = N div 2, *)
(* so that the two concatenated are the session, no sample twice.          *)
(***************************************************************************)
C1_SplitIsPartition ==
    (RealignDone /\ Len(last.listBefore) = 1 /\ Len(FinalBefore) >= 2) =>
        LET s == FinalBefore
            mid == Len(s) \div 2
        IN  /\ Len(lists[last.ret]) = 2
            /\ Len(SessionAfter(1)) = mid
            /\ Len(SessionAfter(2)) = Len(s) - mid
            /\ SessionAfter(1) = SubSeq(s, 1, mid)
            /\ SessionAfter(2) = SubSeq(s, mid + 1, Len(s))
            /\ SessionAfter(1) \o SessionAfter(2) = s

(***************************************************************************)
(* C8: on a list of k >= 1 sessions realign_final_session returns k+1      *)
(* entries: the first k-1 are the original sessions, unchanged and in      *)
(* order, entry k is the first half [0, mid) of the original last session  *)
(* and entry k+1 its second half [mid, N); when the last session has 2L    *)
(* samples and every other one L, all k+1 resulting sessions have L.       *)
(* Stated here for last sessions of at least 2 samples.                    *)
(***************************************************************************)
C8_ListAfterRealign ==
    (RealignDone /\ Len(last.listBefore) >= 1 /\ Len(FinalBefore) >= 2) =>
        LET k == Len(last.listBefore)
            s == FinalBefore
            mid == Len(s) \div 2
            out == lists[last.ret]
        IN  /\ Len(out) = k + 1
            /\ \A i \in 1..(k - 1) :
                  /\ out[i] = last.listBefore[i]
                  /\ raws[out[i]] = last.rawsBefore[out[i]]
            /\ SessionAfter(k) = SubSeq(s, 1, mid)
            /\ SessionAfter(k + 1) = SubSeq(s, mid + 1, Len(s))
            /\ \A L \in 1..Len(s) :
                  (/\ Len(s) = 2 * L
                   /\ \A i \in 1..(k - 1) :
                         Len(last.rawsBefore[last.listBefore[i]].data) = L)
                  => \A i \in 1..(k + 1) : Len(SessionAfter(i)) = L

(***************************************************************************)
(* C10: for a last session of N samples, the two sessions that             *)
(* realign_final_session makes of it have sample counts >= 0 that sum to   *)
(* N (N = 1 included).                                                     *)
(***************************************************************************)
C10_HalvesSumToN ==
    RealignDone =>
        LET k == Len(last.listBefore)
        IN  /\ Len(SessionAfter(k)) >= 0
            /\ Len(SessionAfter(k + 1)) >= 0
            /\ Len(SessionAfter(k)) + Len(SessionAfter(k + 1)) = Len(FinalBefore)

(***************************************************************************)
(* C2 as stated: every preprocessing operation leaves the object passed to *)
(* it as it was and returns a new object.                                  *)
(***************************************************************************)
C2_NoOperationMutates ==
    /\ last.op \in RawOps =>
          /\ raws[last.arg] = last.rawsBefore[last.arg]
          /\ last.ret # last.arg
    /\ last.op = "realign_final_session" =>
          /\ lists[last.arg] = last.listBefore
          /\ RawsAsBefore
          /\ last.status = "ok" => last.ret # last.arg
    /\ last.op = "interpolate_nans" =>
          /\ arrays[last.arg] = last.arrayBefore
          /\ last.status = "ok" => last.ret # last.arg

(***************************************************************************)
(* C2 amended: notch_filter, bandpass_filter, re_reference, signal_detrend *)
(* and create_epochs leave every recording as it was and return a new      *)
(* object; realign_final_session leaves every recording as it was but      *)
(* changes the list passed to it and returns that same list;               *)
(* interpolate_nans overwrites the missing samples of the matrix passed to *)
(* it and returns that same matrix.                                        *)
(***************************************************************************)
C2_CopiesAndInPlace ==
    /\ last.op \in RawOps =>
          /\ RawsAsBefore
          /\ Len(raws) = Len(last.rawsBefore)
          /\ last.ret \notin 1..Len(last.rawsBefore)
    /\ last.op = "realign_final_session" =>
          /\ RawsAsBefore
          /\ last.status = "ok" =>
                /\ last.ret = last.arg
                /\ lists[last.arg] # last.listBefore
                /\ Len(lists[last.arg]) = Len(last.listBefore) + 1
          /\ last.status # "ok" => lists[last.arg] = last.listBefore
    /\ (last.op = "interpolate_nans" /\ last.status = "ok") =>
          /\ last.ret = last.arg
          /\ ~HasNaN(arrays[last.arg])
          /\ HasNaN(last.arrayBefore) => arrays[last.arg] # last.arrayBefore

\* A filter has returned a processed copy of a recording of the caller.
C2_Witness ==
    /\ last.op = "bandpass_filter" /\ last.status = "ok"
    /\ last.out.proc # <<>>
    /\ last.out.data = raws[last.arg].data
    /\ raws[last.arg].proc = <<>>

(***************************************************************************)
(* C3: on a matrix whose channels each hold a non-missing sample,          *)
(* interpolate_nans returns a matrix of the same shape without a missing   *)
(* value: a non-missing sample is kept, a missing sample between two       *)
(* non-missing ones is the linear interpolation (by index) between the     *)
(* nearest on each side, a leading or trailing missing sample is the       *)
(* nearest non-missing sample of its channel.                              *)
(***************************************************************************)
NearestLeft(row, i) ==
    CHOOSE j \in 1..(i - 1) :
        ~IsNaN(row[j]) /\ \A k \in (j + 1)..(i - 1) : IsNaN(row[k])
NearestRight(row, i) ==
    CHOOSE j \in (i + 1)..Len(row) :
        ~IsNaN(row[j]) /\ \A k \in (i + 1)..(j - 1) : IsNaN(row[k])

ExpectedSample(b, a, i) ==
    LET hasL == \E j \in 1..(i - 1) : ~IsNaN(b[j])
        hasR == \E j \in (i + 1)..Len(b) : ~IsNaN(b[j])
        lo == NearestLeft(b, i)
        hi == NearestRight(b, i)
    IN  IF ~IsNaN(b[i]) THEN a[i] = b[i]
        ELSE IF hasL /\ hasR
        THEN RatMul(a[i], Num(hi - lo)) =
                 RatAdd(RatMul(b[lo], Num(hi - i)), RatMul(b[hi], Num(i - lo)))
        ELSE IF hasL THEN a[i] = b[lo]
        ELSE a[i] = b[hi]

C6_EmptyChannelFails ==
    (/\ last.op = "interpolate_nans"
     /\ \E c \in 1..Len(last.arrayBefore) : ~HasValid(last.arrayBefore[c])) =>
        /\ last.status = "ValueError"
        /\ last.ret = 0

\* The call failed on a matrix whose first channel can be interpolated and
\* whose second channel holds no sample.
C6_Witness ==
    /\ last.op = "interpolate_nans" /\ last.status = "ValueError"
    /\ HasValid(last.arrayBefore[1])
    /\ ~HasValid(last.arrayBefore[2])
    /\ Len(last.arrayBefore[2]) >= 2

(***************************************************************************)
(* Helpers of the create_epochs properties: the recording passed, its      *)
(* sampling rate, the number of samples d*f of a window, the sample t*f.   *)
(***************************************************************************)
EpochsDone == last.op = "create_epochs"
EpRaw == last.rawsBefore[last.arg]
EpRate == Num(EpRaw.sfreq)
EpStarts == last.start_times
EpSpan == RatMul(last.duration, EpRate)
EpSample(i) == RatMul(EpStarts[i], EpRate)
SamplesOf(e) == {e.data[i] : i \in 1..Len(e.data)}

C5_WindowPastEndFails ==
    (/\ EpochsDone
     /\ \E i \in 1..Len(EpStarts) :
           RatLt(Num(NTimes(EpRaw)), RatAdd(EpSample(i), EpSpan))) =>
        last.status # "ok"

(***************************************************************************)
(* C7: load_mne_data picks its loader from the end of the filename alone:  *)
(* "_raw.fif" is read by read_raw_fif, "_epo.fif" by read_epochs, and any  *)
(* other name fails without a loader being called or a file being read.    *)
(***************************************************************************)
LastChars(f, n) == [i \in 1..n |-> f[Len(f) - n + i]]

C7_LoaderBySuffix ==
    last.op = "load_mne_data" =>
        LET f == last.filename
            long == Len(f) >= 8
            isRaw == long /\ LastChars(f, 8) = RawSuffix
            isEpo == long /\ LastChars(f, 8) = EpoSuffix
        IN  /\ isRaw => last.loader = "read_raw_fif" /\ Len(last.reads) = 1
            /\ isEpo => last.loader = "read_epochs" /\ Len(last.reads) = 1
            /\ ~(isRaw \/ isEpo) =>
                  /\ last.status = "ValueError"
                  /\ last.loader = "none"
                  /\ last.reads = <<>>

\* A name that holds "_raw.fif" but ends in "_epo.fif" went to read_epochs.
C7_Witness ==
    /\ last.op = "load_mne_data"
    /\ last.filename = <<"s", "1">> \o RawSuffix \o EpoSuffix
    /\ last.loader = "read_epochs"
    /\ Len(last.reads) = 1

(***************************************************************************)
(* C9: bandpass_filter succeeds for all 0 <= low < high <= f/2 (high = f/2 *)
(* included) and fails, returning no container, for all low >= high.       *)
(***************************************************************************)
C9_BandEdgesValidated ==
    last.op = "bandpass_filter" =>
        LET low == last.args[1]
            high == last.args[2]
            f == last.rawsBefore[last.arg].sfreq
        IN  /\ (0 <= low /\ low < high /\ 2 * high <= f) => last.status = "ok"
            /\ low >= high => (last.status # "ok" /\ last.ret = 0)

====
